---- MODULE Spec2Model ----
(***************************************************************************)
(* A model of liquid_tags/thebe.py: the {% thebe ... %} tag handler        *)
(* thebe(), the FORMAT regular expression it parses its markup with, the   *)
(* SubCell preprocessor that slices the cells of a notebook, and the       *)
(* custom_highlighter filter.                                              *)
(*                                                                         *)
(* Text is modelled as a sequence of one-character strings, so that the    *)
(* regular expression and int() work on characters.                        *)
(***************************************************************************)
EXTENDS Integers, Sequences, FiniteSets, TLC

VARIABLES
    fs,        \* the file system: resolved path -> file
    stash,     \* preprocessor.configs.htmlStash: the stored (html, safe) entries
    evals,     \* number of {% thebe %} tags evaluated so far
    last,      \* the latest evaluation of thebe(): its markup, steps and outcome
    heap,      \* the objects reachable from the notebook nodes (SubCell.preprocess)
    nb,        \* the notebook node handed to SubCell.preprocess
    nbc,       \* the node SubCell.preprocess returned (0: not called yet)
    subcell,   \* the SubCell instance: its start and end traits
    orig,      \* the value of the node nb when it was loaded
    touched    \* the caller has changed the node that preprocess returned

vars == <<fs, stash, evals, last, heap, nb, nbc, subcell, orig, touched>>

-----------------------------------------------------------------------------
(* Bounds of the model.                                                    *)

\* most cells in a notebook
MaxCells == 3
\* most tags evaluated in one page build
MaxDirectives == 2
\* the cells[...] numerals written in a directive range over -MaxIdx..MaxIdx
MaxIdx == 2

-----------------------------------------------------------------------------
(* Python values.                                                          *)

\* None, and a value that is not None, for an optional text
NoneStr == [none |-> TRUE, val |-> <<>>]
SomeStr(s) == [none |-> FALSE, val |-> s]
\* None, and a value that is not None, for an optional integer
NoneInt == [none |-> TRUE, val |-> 0]
SomeInt(n) == [none |-> FALSE, val |-> n]

\* bool(x) of an optional text: None and '' are false
Truthy(x) == ~x.none /\ x.val # <<>>

Min(a, b) == IF a < b THEN a ELSE b
Max(a, b) == IF a > b THEN a ELSE b

-----------------------------------------------------------------------------
(* Character classes of the re module.                                     *)

\* \s
Space == {" ", "\t", "\n", "\r", "\f"}
\* [0-9]
Digit == {"0", "1", "2", "3", "4", "5", "6", "7", "8", "9"}
\* [a-z]
Lower == {"a", "b", "c", "d", "e", "f", "g", "h", "i", "j", "k", "l", "m",
          "n", "o", "p", "q", "r", "s", "t", "u", "v", "w", "x", "y", "z"}
\* [a-z0-9\+\-]
LangChar == Lower \cup Digit \cup {"+", "-"}

\* every character of s in positions i .. j-1 satisfies the class
AllIn(s, i, j, class) == \A k \in i..(j - 1) : s[k] \in class
AllNotIn(s, i, j, class) == \A k \in i..(j - 1) : s[k] \notin class

\* the literal lit stands in s at position i
LitAt(s, i, lit) ==
    /\ i + Len(lit) - 1 <= Len(s)
    /\ SubSeq(s, i, i + Len(lit) - 1) = lit

CellsOpen == <<"c", "e", "l", "l", "s", "[">>
LanguageOpen == <<"l", "a", "n", "g", "u", "a", "g", "e", "[">>

-----------------------------------------------------------------------------
(* FORMAT, matched by a backtracking matcher.  A partial match is a record *)
(* [pos, pri, src, start, end, language]: pos is the next position of the  *)
(* subject, pri the choices taken so far (a greedy quantifier's length, 1  *)
(* for an optional group that took part and 0 for one that was skipped),   *)
(* and the rest the named groups.  The match the re module returns is the  *)
(* first one in backtracking order: the one whose pri is greatest in the   *)
(* lexicographic order.                                                    *)

\* (\s+)? from each partial match of M
OptSpaces(s, M) ==
    UNION { { [m EXCEPT !.pos = j, !.pri = Append(@, j - m.pos)] :
                j \in { j \in m.pos..(Len(s) + 1) : AllIn(s, m.pos, j, Space) } } :
            m \in M }

\* (?P<src>\S+)
SrcGroup(s, M) ==
    UNION { { [m EXCEPT !.pos = j, !.pri = Append(@, j - m.pos),
                        !.src = SomeStr(SubSeq(s, m.pos, j - 1))] :
                j \in { j \in (m.pos + 1)..(Len(s) + 1) :
                          AllNotIn(s, m.pos, j, Space) } } :
            m \in M }

\* -?[0-9]* from position i: the positions where it can end
SignedDigitsEnds(s, i) ==
    LET from(a) == { j \in a..(Len(s) + 1) : AllIn(s, a, j, Digit) }
    IN  from(i) \cup (IF i <= Len(s) /\ s[i] = "-" THEN from(i + 1) ELSE {})

\* the choices of -?[0-9]* (or -?[a-z0-9\+\-]*) that ends at j: whether the
\* optional '-' took part, and the length of the starred class
SignedPri(s, i, j, class) ==
    IF i < j /\ s[i] = "-" /\ AllIn(s, i + 1, j, class)
    THEN <<1, j - i - 1>> ELSE <<0, j - i>>

\* ((cells\[)(?P<start>-?[0-9]*):(?P<end>-?[0-9]*)(\]))?
CellsGroup(s, M) ==
    LET colons(m) == { j \in SignedDigitsEnds(s, m.pos + 6) : LitAt(s, j, <<":">>) }
        closes(j) == { k \in SignedDigitsEnds(s, j + 1) : LitAt(s, k, <<"]">>) }
        taken(m) ==
          IF ~LitAt(s, m.pos, CellsOpen) THEN {}
          ELSE { [m EXCEPT !.pos = jk[2] + 1,
                           !.pri = @ \o <<1>> \o SignedPri(s, m.pos + 6, jk[1], Digit)
                                     \o SignedPri(s, jk[1] + 1, jk[2], Digit),
                           !.start = SomeStr(SubSeq(s, m.pos + 6, jk[1] - 1)),
                           !.end = SomeStr(SubSeq(s, jk[1] + 1, jk[2] - 1))] :
                   jk \in UNION { { <<j, k>> : k \in closes(j) } : j \in colons(m) } }
        skipped(m) == [m EXCEPT !.pri = Append(@, 0)]
    IN  UNION { taken(m) \cup {skipped(m)} : m \in M }

\* -?[a-z0-9\+\-]* from position i: the positions where it can end
LanguageEnds(s, i) ==
    { j \in i..(Len(s) + 1) : AllIn(s, i, j, LangChar) }

\* ((language\[)(?P<language>-?[a-z0-9\+\-]*)(\]))?
LanguageGroup(s, M) ==
    LET taken(m) ==
          IF ~LitAt(s, m.pos, LanguageOpen) THEN {}
          ELSE { [m EXCEPT !.pos = j + 1,
                           !.pri = @ \o <<1>> \o SignedPri(s, m.pos + 9, j, LangChar),
                           !.language = SomeStr(SubSeq(s, m.pos + 9, j - 1))] :
                   j \in { j \in LanguageEnds(s, m.pos + 9) : LitAt(s, j, <<"]">>) } }
        skipped(m) == [m EXCEPT !.pri = Append(@, 0)]
    IN  UNION { taken(m) \cup {skipped(m)} : m \in M }

\* FORMAT without its final $
AnyEnd(s, M) == M

\* $ : the end of the subject, or just before its final newline
AtEnd(s, M) ==
    { m \in M : \/ m.pos = Len(s) + 1
                \/ m.pos = Len(s) /\ s[Len(s)] = "\n" }

\* ^ : the match starts at the first character, with no group set
AtStart ==
    { [pos |-> 1, pri |-> <<>>, src |-> NoneStr, start |-> NoneStr,
       end |-> NoneStr, language |-> NoneStr] }

\* a comes before b in backtracking order
Earlier(a, b) ==
    \E k \in 1..Min(Len(a), Len(b)) :
        /\ a[k] > b[k]
        /\ \A i \in 1..(k - 1) : a[i] = b[i]

\* FORMAT with the two clauses accepted in either order
FormatMatchesAnyOrder(s) ==
    AtEnd(s,
      OptSpaces(s,
        LanguageGroup(s,
          OptSpaces(s,
            CellsGroup(s,
              OptSpaces(s,
                LanguageGroup(s,
                  OptSpaces(s,
                    SrcGroup(s,
                      OptSpaces(s, AtStart))))))))))

\* every way FORMAT matches the subject s
FormatMatches(s) ==
    AtEnd(s,
      OptSpaces(s,
        LanguageGroup(s,
          OptSpaces(s,
            CellsGroup(s,
              OptSpaces(s,
                SrcGroup(s,
                  OptSpaces(s, AtStart))))))))

\* the first of the matches M in backtracking order, and its groupdict();
\* matched = FALSE where there is none
FirstMatch(M) ==
    IF M = {} THEN [matched |-> FALSE, src |-> NoneStr, start |-> NoneStr,
                    end |-> NoneStr, language |-> NoneStr]
    ELSE LET m == CHOOSE m \in M : \A o \in M : ~Earlier(o.pri, m.pri)
         IN  [matched |-> TRUE, src |-> m.src, start |-> m.start,
              end |-> m.end, language |-> m.language]

\* FORMAT.search(markup): None, or the first match and its groupdict()
FORMAT(s) == FirstMatch(FormatMatches(s))

-----------------------------------------------------------------------------
(* int() on a text the FORMAT groups can hold: an optional '-' and digits. *)

DigitVal(c) ==
    CASE c = "0" -> 0 [] c = "1" -> 1 [] c = "2" -> 2 [] c = "3" -> 3
      [] c = "4" -> 4 [] c = "5" -> 5 [] c = "6" -> 6 [] c = "7" -> 7
      [] c = "8" -> 8 [] c = "9" -> 9

RECURSIVE DigitsVal(_)
DigitsVal(ds) ==
    IF ds = <<>> THEN 0
    ELSE DigitsVal(SubSeq(ds, 1, Len(ds) - 1)) * 10 + DigitVal(ds[Len(ds)])

\* int() that loses the sign
IntSignDropped(neg, v) == v

\* the sign of int(): '-' negates
IntSign(neg, v) == IF neg THEN 0 - v ELSE v

\* int(s): its value, or ok = FALSE where int() raises ValueError
\* ("invalid literal for int() with base 10")
PyInt(s) ==
    LET neg == s # <<>> /\ s[1] = "-"
        ds  == IF neg THEN Tail(s) ELSE s
    IN  IF ds = <<>> \/ ~AllIn(ds, 1, Len(ds) + 1, Digit)
        THEN [ok |-> FALSE, val |-> 0]
        ELSE [ok |-> TRUE, val |-> IntSign(neg, DigitsVal(ds))]

-----------------------------------------------------------------------------
(* seq[start:end] of Python, start and end being integers or None.         *)

\* slice(start, end).indices(n), for the step 1
SliceBound(i, n, dflt) ==
    IF i.none THEN dflt
    ELSE IF i.val < 0 THEN Max(i.val + n, 0)
    ELSE Min(i.val, n)

\* a slice that takes the cell at its end as well
PySliceInclusive(seq, start, end) ==
    LET n  == Len(seq)
        lo == SliceBound(start, n, 0)
        hi == SliceBound(end, n, n)
    IN  IF lo <= hi THEN SubSeq(seq, lo + 1, Min(hi + 1, n)) ELSE <<>>

PySlice(seq, start, end) ==
    LET n  == Len(seq)
        lo == SliceBound(start, n, 0)
        hi == SliceBound(end, n, n)
    IN  IF lo < hi THEN SubSeq(seq, lo + 1, hi) ELSE <<>>

-----------------------------------------------------------------------------
(* Notebook nodes.  The heap is a sequence of objects, a reference is an   *)
(* index into it.  A notebook node has a list of cells and a metadata      *)
(* dictionary, both held by reference.                                     *)

NbObj(cellsRef, metaRef) == [t |-> "nb", cells |-> cellsRef, metadata |-> metaRef]
ListObj(items) == [t |-> "list", items |-> items]
DictObj(v) == [t |-> "dict", val |-> v]

\* the notebook node that IPython.nbformat.reads builds for the cells cs and
\* the metadata md, in a fresh heap: the node is the last object
Load(cs, md) ==
    LET k == Len(cs)
    IN  cs \o <<ListObj([i \in 1..k |-> i]), DictObj(md), NbObj(k + 1, k + 2)>>

\* the cells of the node r, and the node as a value
CellsOf(h, r) ==
    LET items == h[h[r].cells].items
    IN  [i \in 1..Len(items) |-> h[items[i]]]
MetadataOf(h, r) == h[h[r].metadata].val
ValueOf(h, r) == [cells |-> CellsOf(h, r), metadata |-> MetadataOf(h, r)]

\* copy.copy(nb): a new node that shares the list, the cells and the metadata
ShallowCopy(h, r) ==
    [heap |-> Append(h, h[r]), ref |-> Len(h) + 1]

\* copy.copy(nb) in the place of deepcopy(nb)
deepcopy_shallow(h, r) == ShallowCopy(h, r)

\* deepcopy(nb): a new node with its own list, cells and metadata
deepcopy(h, r) ==
    LET n     == Len(h)
        items == h[h[r].cells].items
        k     == Len(items)
    IN  [heap |-> h \o [i \in 1..k |-> h[items[i]]]
                    \o <<ListObj([i \in 1..k |-> n + i]),
                         h[h[r].metadata],
                         NbObj(n + k + 1, n + k + 2)>>,
         ref  |-> n + k + 3]

\* SubCell.preprocess(nb, resources) of the instance self (IPYTHON_VERSION >= 3,
\* which the model takes; the module refuses to load below 3): the heap after
\* the call and the node returned
preprocess(self, h, r) ==
    LET c   == deepcopy(h, r)
        h1  == c.heap
        new == ListObj(PySlice(h1[h1[c.ref].cells].items, self.start, self.end))
    IN  [heap |-> [Append(h1, new) EXCEPT ![c.ref].cells = Len(h1) + 1],
         ref  |-> c.ref]

-----------------------------------------------------------------------------
(* Cells and their rendering.  A cell is [cell_type, source]; a source is  *)
(* an integer standing for its text, a negative one for a text the lexer   *)
(* cannot handle.                                                          *)

Cell(type, source) == [cell_type |-> type, source |-> source]

\* _pygments_highlight(source, formatter, language) raises for this source
LexerRaises(source) == source < 0

IPYTHON == <<"i", "p", "y", "t", "h", "o", "n">>

\* a custom_highlighter that catches the failure and gives the plain source
custom_highlighter_plain(source, language) ==
    [raised   |-> FALSE,
     cssclass |-> IF LexerRaises(source) THEN "plain" ELSE "highlight-ipynb",
     language |-> IF Truthy(language) THEN language.val ELSE IPYTHON,
     source   |-> source]

\* custom_highlighter(source, language): the markup of the highlighted source,
\* or raised = TRUE where _pygments_highlight raises: nothing catches it
custom_highlighter(source, language) ==
    LET lang == IF Truthy(language) THEN language.val ELSE IPYTHON
    IN  [raised   |-> LexerRaises(source),
         cssclass |-> "highlight-ipynb",
         language |-> lang,
         source   |-> source]

\* the markup the template gives one cell: a code cell goes through the
\* highlight2html filter, which is custom_highlighter with the language bound
RenderCell(cell, language) ==
    IF cell.cell_type = "code"
    THEN custom_highlighter(cell.source, language)
    ELSE [raised |-> FALSE, cssclass |-> "text_cell_render",
          language |-> <<>>, source |-> cell.source]

\* exporter.from_notebook_node(nb_json): the SubCell preprocessor, enabled with
\* the start and end of the Config, then the template over the cells it left
from_notebook_node(nbjson, start, end, language) ==
    LET h0    == Load(nbjson.cells, nbjson.metadata)
        out   == preprocess([start |-> start, end |-> end], h0, Len(h0))
        cells == CellsOf(out.heap, out.ref)
        html  == [i \in 1..Len(cells) |-> RenderCell(cells[i], language)]
    IN  [raised |-> \E i \in 1..Len(cells) : html[i].raised,
         cells  |-> cells,
         body   |-> html]

-----------------------------------------------------------------------------
(* Paths and files.                                                        *)

CONTENT == <<"c", "o", "n", "t", "e", "n", "t">>
\* preprocessor.configs.getConfig('NOTEBOOK_DIR')
NOTEBOOK_DIR == <<"n", "o", "t", "e", "b", "o", "o", "k", "s">>

\* posixpath.join(a, b)
Join2(a, b) ==
    IF b # <<>> /\ b[1] = "/" THEN b
    ELSE IF a = <<>> \/ a[Len(a)] = "/" THEN a \o b
    ELSE a \o <<"/">> \o b

\* os.path.join('content', nb_dir, src)
PathJoin(nb_dir, src) == Join2(Join2(CONTENT, nb_dir), src)

\* no existence test before the file is opened
ExistsAlways(fsys, path) == TRUE

\* os.path.exists(path)
Exists(fsys, path) == path \in DOMAIN fsys

\* what open(path) finds: a file, a directory, or nothing
FileAt(fsys, path) ==
    IF path \in DOMAIN fsys THEN fsys[path]
    ELSE [kind |-> "missing", valid |-> FALSE, nb |-> [cells |-> <<>>, metadata |-> ""]]

-----------------------------------------------------------------------------
(* thebe(preprocessor, tag, markup).                                       *)

SYNTAX == "{% thebe /path/to/notebook.ipynb [ cells[start:end] ] [ language[language] ] %}"

NoError == [type |-> "", text |-> "", syntax |-> "", arg |-> <<>>]
\* raise ValueError("Error processing input, expected syntax: {0}".format(SYNTAX))
SyntaxError == [type |-> "ValueError",
                text |-> "Error processing input, expected syntax: {0}",
                syntax |-> SYNTAX, arg |-> <<>>]
\* the ValueError of int()
IntError(s) == [type |-> "ValueError",
                text |-> "invalid literal for int() with base 10: {0}",
                syntax |-> "", arg |-> s]
\* raise ValueError("File {0} could not be found".format(nb_path))
NotFoundError(path) == [type |-> "ValueError",
                        text |-> "File {0} could not be found",
                        syntax |-> "", arg |-> path]
\* open() of a path that is no readable file
OpenError(path) == [type |-> "IOError", text |-> "open", syntax |-> "", arg |-> path]
\* IPython.nbformat.reads of a text that is no notebook
ReadsError(path) == [type |-> "NotJSONError", text |-> "reads", syntax |-> "", arg |-> path]
\* what from_notebook_node lets through from the highlight2html filter
RenderError(path) == [type |-> "Exception", text |-> "highlight", syntax |-> "", arg |-> path]

\* the outcome of an evaluation that got as far as `steps`
Outcome(steps, error, src, start, end, language, path, cells, body, st, token) ==
    [steps |-> steps, error |-> error, src |-> src, start |-> start, end |-> end,
     language |-> language, nb_path |-> path, cells |-> cells, body |-> body,
     stash |-> st, token |-> token]

\* start, lines 114-117:  if start: start = int(start)  else: start = 0
StartOf(start) == IF Truthy(start) THEN PyInt(start.val) ELSE [ok |-> TRUE, val |-> 0]

\* an end that takes the empty text of cells[a:] for 0
EndOfEmptyZero(end) ==
    IF end.none THEN [ok |-> TRUE, val |-> NoneInt]
    ELSE IF end.val = <<>> THEN [ok |-> TRUE, val |-> SomeInt(0)]
    ELSE LET v == PyInt(end.val) IN [ok |-> v.ok, val |-> SomeInt(v.val)]

\* end, lines 119-122:  if end: end = int(end)  else: end = None
EndOf(end) ==
    IF Truthy(end)
    THEN LET v == PyInt(end.val) IN [ok |-> v.ok, val |-> SomeInt(v.val)]
    ELSE [ok |-> TRUE, val |-> NoneInt]

\* a store that keeps only the newest entry
StoreOverwrite(st, body) ==
    [stash |-> <<[html |-> body, safe |-> TRUE]>>, token |-> SomeInt(0)]

\* htmlStash.store(body, safe=True): the stash with the entry appended, and the
\* placeholder that names the entry
Store(st, body) ==
    [stash |-> Append(st, [html |-> body, safe |-> TRUE]),
     token |-> SomeInt(Len(st))]

\* the statements of thebe() from the existence test on
Render(fsys, st, src, start, end, language) ==
    LET path == PathJoin(NOTEBOOK_DIR, src)
        fail(steps, e) == Outcome(steps, e, SomeStr(src), SomeInt(start), end, language,
                                  path, <<>>, <<>>, st, NoneInt)
        pre  == <<"search", "int", "getConfig", "exists">>
    IN  IF ~Exists(fsys, path) THEN fail(pre, NotFoundError(path))
        ELSE IF FileAt(fsys, path).kind # "file"
             THEN fail(pre \o <<"HTMLExporter", "open">>, OpenError(path))
        ELSE IF ~FileAt(fsys, path).valid
             THEN fail(pre \o <<"HTMLExporter", "open", "read", "reads">>, ReadsError(path))
        ELSE LET out == from_notebook_node(FileAt(fsys, path).nb, SomeInt(start), end,
                                           language)
                 run == pre \o <<"HTMLExporter", "open", "read", "reads",
                                 "from_notebook_node">>
             IN  IF out.raised THEN fail(run, RenderError(path))
                 ELSE LET s == Store(st, out.body)
                      IN  Outcome(run \o <<"store", "return">>, NoError, SomeStr(src),
                                  SomeInt(start), end, language, path, out.cells,
                                  out.body, s.stash, s.token)

\* the statements of thebe() after match = FORMAT.search(markup)
Convert(fsys, st, match) ==
    LET fail(steps, e) == Outcome(steps, e, NoneStr, NoneInt, NoneInt, NoneStr,
                                  <<>>, <<>>, <<>>, st, NoneInt)
    IN  IF ~match.matched THEN fail(<<"search">>, SyntaxError)
        ELSE LET start == StartOf(match.start)
                 end   == EndOf(match.end)
             IN  IF ~start.ok THEN fail(<<"search", "int">>, IntError(match.start.val))
                 ELSE IF ~end.ok THEN fail(<<"search", "int">>, IntError(match.end.val))
                 ELSE Render(fsys, st, match.src.val, start.val, end.val, match.language)

\* thebe(preprocessor, tag, markup) with the file system fsys and the stash st
thebe(fsys, st, markup) == Convert(fsys, st, FORMAT(markup))

-----------------------------------------------------------------------------
(* The markups the tag is evaluated on.  A markup is written from its      *)
(* parts: lead path sep1 c1 sep2 c2 trail, c1 and c2 being one clause or   *)
(* nothing each; a numeral of a cells clause is written from the integer   *)
(* it stands for.                                                          *)

DigitChar(n) ==
    CASE n = 0 -> "0" [] n = 1 -> "1" [] n = 2 -> "2" [] n = 3 -> "3"
      [] n = 4 -> "4" [] n = 5 -> "5" [] n = 6 -> "6" [] n = 7 -> "7"
      [] n = 8 -> "8" [] n = 9 -> "9"

\* the decimal numeral of a natural number, and of an integer
RECURSIVE NatText(_)
NatText(n) ==
    IF n < 10 THEN <<DigitChar(n)>>
    ELSE NatText(n \div 10) \o <<DigitChar(n % 10)>>
IntText(n) == IF n < 0 THEN <<"-">> \o NatText(0 - n) ELSE NatText(n)

\* the integers written in cells clauses
NumInts == ((0 - MaxIdx)..MaxIdx) \cup {5, 12, 0 - 10}

\* a numeral: no digits at all, the numeral of n, the numeral of n with a
\* leading zero, or a '-' with no digits
Numeral(form, n) == [form |-> form, n |-> n]
Numerals ==
    {Numeral("none", 0), Numeral("dash", 0), Numeral("zero", 7), Numeral("zero", 0 - 1)}
      \cup { Numeral("int", n) : n \in NumInts }
NumeralText(x) ==
    CASE x.form = "none" -> <<>>
      [] x.form = "dash" -> <<"-">>
      [] x.form = "int"  -> IntText(x.n)
      [] x.form = "zero" -> IF x.n < 0 THEN <<"-", "0">> \o NatText(0 - x.n)
                            ELSE <<"0">> \o NatText(x.n)

PY == <<"p", "y">>
NB == <<"n", "b">>

NoClause == [kind |-> "none", s |-> Numeral("none", 0), e |-> Numeral("none", 0),
             l |-> <<>>]
CellsClause(s, e) == [kind |-> "cells", s |-> s, e |-> e, l |-> <<>>]
LanguageClause(l) == [kind |-> "language", s |-> Numeral("none", 0),
                      e |-> Numeral("none", 0), l |-> l]
ClauseText(c) ==
    CASE c.kind = "none"     -> <<>>
      [] c.kind = "cells"    -> CellsOpen \o NumeralText(c.s) \o <<":">>
                                  \o NumeralText(c.e) \o <<"]">>
      [] c.kind = "language" -> LanguageOpen \o c.l \o <<"]">>

Parts(lead, path, sep1, c1, sep2, c2, trail) ==
    [lead |-> lead, path |-> path, sep1 |-> sep1, c1 |-> c1, sep2 |-> sep2,
     c2 |-> c2, trail |-> trail]
MarkupText(d) ==
    d.lead \o d.path \o d.sep1 \o ClauseText(d.c1) \o d.sep2 \o ClauseText(d.c2)
      \o d.trail

Languages == {<<>>, PY, <<"-", "c", "+">>}

\* the markups the parser is checked on
ParserDirectives ==
    { Parts(lead, path, sep1, c1, sep2, c2, trail) :
        lead \in {<<>>, <<" ">>},
        path \in {<<>>, NB},
        sep1 \in {<<>>, <<" ">>},
        c1 \in {NoClause} \cup { CellsClause(s, e) : s \in Numerals, e \in Numerals }
                 \cup { LanguageClause(l) : l \in Languages },
        sep2 \in {<<>>, <<"\t">>},
        c2 \in {NoClause, LanguageClause(PY), LanguageClause(<<>>),
                CellsClause(Numeral("int", 2), Numeral("int", 5))},
        trail \in {<<>>, <<"\n">>, <<"e", "x", "t", "r", "a">>} }

\* the paths of the modelled file system: NB is a notebook, DIR a directory,
\* BAD a file that is no notebook, NO does not exist
DIR == <<"d">>
BAD == <<"b", "a", "d">>
NO == <<"n", "o">>

\* the markups of a page
PageDirectives ==
    { Parts(<<>>, path, <<" ">>, c1, <<" ">>, c2, <<>>) :
        path \in {NB, DIR, BAD, NO},
        c1 \in {NoClause,
                CellsClause(Numeral("none", 0), Numeral("none", 0)),
                CellsClause(Numeral("int", 1), Numeral("none", 0)),
                CellsClause(Numeral("dash", 0), Numeral("none", 0))},
        c2 \in {NoClause, LanguageClause(PY)} }
      \cup {Parts(<<>>, NB, <<" ">>, NoClause, <<>>, NoClause, <<"e", "x", "t", "r", "a">>)}

\* the notebooks of at most MaxCells cells: cell i has the source i and is a
\* code cell when i is odd; at most one code cell has a source the lexer
\* cannot handle
Notebook(n, bad) ==
    [cells |-> [i \in 1..n |-> Cell(IF i % 2 = 1 THEN "code" ELSE "markdown",
                                    IF i = bad THEN 0 - i ELSE i)],
     metadata |-> "kernelspec"]
Notebooks ==
    { Notebook(n, bad) : <<n, bad>> \in { <<n, bad>> \in (0..MaxCells) \X (0..MaxCells) :
                                            bad = 0 \/ (bad <= n /\ bad % 2 = 1) } }

\* a file system in which NB holds the notebook nbv
FileSystem(nbv) ==
    (PathJoin(NOTEBOOK_DIR, NB) :> [kind |-> "file", valid |-> TRUE, nb |-> nbv])
      @@ (PathJoin(NOTEBOOK_DIR, DIR) :> [kind |-> "dir", valid |-> FALSE, nb |-> nbv])
      @@ (PathJoin(NOTEBOOK_DIR, BAD) :> [kind |-> "file", valid |-> FALSE, nb |-> nbv])

-----------------------------------------------------------------------------
(* The state machine.                                                      *)

NoEval == [done |-> FALSE, d |-> Parts(<<>>, <<>>, <<>>, NoClause, <<>>, NoClause, <<>>),
           markup |-> <<>>,
           r |-> Outcome(<<>>, NoError, NoneStr, NoneInt, NoneInt, NoneStr, <<>>, <<>>,
                         <<>>, <<>>, NoneInt)]

NoSubCell == [start |-> SomeInt(0), end |-> NoneInt]

\* the variables of SubCell.preprocess, while thebe() is what is checked
NoSelector ==
    /\ heap = <<>>
    /\ nb = 0
    /\ nbc = 0
    /\ subcell = NoSubCell
    /\ orig = 0
    /\ touched = FALSE

\* one {% thebe markup %} tag of the page is evaluated
Evaluated(d, r) ==
    /\ evals' = evals + 1
    /\ stash' = r.stash
    /\ last' = [done |-> TRUE, d |-> d, markup |-> MarkupText(d), r |-> r]
    /\ UNCHANGED <<fs, heap, nb, nbc, subcell, orig, touched>>

ThebeTag(d) == Evaluated(d, thebe(fs, stash, MarkupText(d)))

\* a page build: up to MaxDirectives tags over one file system
Init ==
    /\ fs \in { FileSystem(nbv) : nbv \in Notebooks }
    /\ stash = <<>>
    /\ evals = 0
    /\ last = NoEval
    /\ NoSelector

Next == evals < MaxDirectives /\ \E d \in PageDirectives : ThebeTag(d)

Spec == Init /\ [][Next]_vars

\* the parser: one tag over a fixed file system
ParserInit ==
    /\ fs = FileSystem(Notebook(2, 0))
    /\ stash = <<>>
    /\ evals = 0
    /\ last = NoEval
    /\ NoSelector

ParserNext == evals = 0 /\ \E d \in ParserDirectives : ThebeTag(d)

ParserSpec == ParserInit /\ [][ParserNext]_vars

-----------------------------------------------------------------------------
(* SubCell.preprocess on a loaded notebook, and a caller that goes on to   *)
(* change the node it got back.                                            *)

\* the values of the start and end traits
SelIdx == (0 - (MaxCells + 2))..(MaxCells + 2)

\* the variables of thebe(), while SubCell.preprocess is what is checked
NoPage ==
    /\ fs = FileSystem(Notebook(0, 0))
    /\ stash = <<>>
    /\ evals = 0
    /\ last = NoEval

SelectorInit ==
    /\ NoPage
    /\ \E n \in 0..MaxCells :
         /\ heap = Load(Notebook(n, 0).cells, Notebook(n, 0).metadata)
         /\ orig = Notebook(n, 0)
    /\ nb = Len(heap)
    /\ nbc = 0
    /\ subcell \in { [start |-> SomeInt(a), end |-> b] :
                       a \in SelIdx, b \in {NoneInt} \cup { SomeInt(e) : e \in SelIdx } }
    /\ touched = FALSE

\* nbc, resources = SubCell.preprocess(nb, resources)
Preprocessed(out) ==
    /\ heap' = out.heap
    /\ nbc' = out.ref
    /\ UNCHANGED <<fs, stash, evals, last, nb, subcell, orig, touched>>

Preprocess ==
    /\ nbc = 0
    /\ Preprocessed(preprocess(subcell, heap, nb))

\* the caller assigns to the source of a cell of the returned node
SetCellSource ==
    /\ nbc # 0
    /\ \E c \in { heap[heap[nbc].cells].items[i] :
                    i \in 1..Len(heap[heap[nbc].cells].items) } :
         /\ heap[c].source # 0
         /\ heap' = [heap EXCEPT ![c].source = 0]
    /\ touched' = TRUE
    /\ UNCHANGED <<fs, stash, evals, last, nb, nbc, subcell, orig>>

\* the caller deletes the first cell of the returned node's list
DelCell ==
    /\ nbc # 0
    /\ heap[heap[nbc].cells].items # <<>>
    /\ heap' = [heap EXCEPT ![heap[nbc].cells].items = Tail(@)]
    /\ touched' = TRUE
    /\ UNCHANGED <<fs, stash, evals, last, nb, nbc, subcell, orig>>

\* the caller assigns to an entry of the returned node's metadata
SetMetadata ==
    /\ nbc # 0
    /\ heap[heap[nbc].metadata].val # "changed"
    /\ heap' = [heap EXCEPT ![heap[nbc].metadata].val = "changed"]
    /\ touched' = TRUE
    /\ UNCHANGED <<fs, stash, evals, last, nb, nbc, subcell, orig>>

SelectorNext == Preprocess \/ SetCellSource \/ DelCell \/ SetMetadata

SelectorSpec == SelectorInit /\ [][SelectorNext]_vars

-----------------------------------------------------------------------------
(* The cell-range selector (SelectorSpec).                                 *)

\* the cell at the 0-based position q of n cells lies at or after the index a,
\* which counts from the end when it is negative
AtOrAfter(q, n, a) == IF a >= 0 THEN q >= a ELSE q - n >= a
\* the same cell lies before the index b; None bounds nothing
Before(q, n, b) == b.none \/ (IF b.val >= 0 THEN q < b.val ELSE q - n < b.val)

\* the 1-based positions of the original's cells that [start:end) names
Selected ==
    { p \in 1..Len(orig.cells) :
        /\ AtOrAfter(p - 1, Len(orig.cells), subcell.start.val)
        /\ Before(p - 1, Len(orig.cells), subcell.end) }

\* preprocess has returned and nobody has changed its result yet
Returned == nbc # 0 /\ ~touched

\* C3: the cells of the document SubCell.preprocess returns are exactly the
\* cells of the original that the half-open range [start:end) names, in the
\* original order: a negative index counts from the end, an index out of range
\* is clamped, a range whose start is not before its end is empty and no
\* error; [0:0] is empty and [-2:] is the last two cells.
C3_SliceOfOriginal ==
    Returned =>
      LET R == CellsOf(heap, nbc)
          O == orig.cells
          n == Len(O)
          a == subcell.start.val
          b == subcell.end
      IN  /\ Len(R) = Cardinality(Selected)
          /\ \A i \in 1..Len(R) :
               /\ \E p \in Selected :
                    /\ R[i] = O[p]
                    /\ Cardinality({ q \in Selected : q < p }) = i - 1
          /\ (a = 0 /\ b = SomeInt(0)) => R = <<>>
          /\ (a = 0 - 2 /\ b.none) => R = SubSeq(O, Max(n - 2, 0) + 1, n)
          /\ (~b.none /\ a >= b.val /\ (a >= 0 <=> b.val >= 0)) => R = <<>>
          /\ (a <= 0 - n /\ ~b.none /\ b.val >= n) => R = O

\* C3 (witness): a range counted from the end selected some cells, not all
C3_Witness ==
    /\ Returned
    /\ subcell.start.val = 0 - 2
    /\ subcell.end = SomeInt(0 - 1)
    /\ Len(orig.cells) = 3
    /\ Len(CellsOf(heap, nbc)) = 1

\* the objects a notebook node holds
Reach(h, r) ==
    {r, h[r].cells, h[r].metadata}
      \cup { h[h[r].cells].items[i] : i \in 1..Len(h[h[r].cells].items) }

\* C4: SubCell.preprocess leaves the original document as it was, cells and
\* cell count; the document it returns shares no object with the original, so
\* that whatever is later done to it leaves the original as it was; and the
\* metadata of the returned document is the original's.
C4_OriginalUntouched ==
    nbc # 0 =>
      /\ ValueOf(heap, nb) = orig
      /\ Len(CellsOf(heap, nb)) = Len(orig.cells)
      /\ nbc # nb
      /\ Reach(heap, nbc) \cap Reach(heap, nb) = {}
      /\ ~touched => MetadataOf(heap, nbc) = orig.metadata

\* C4 (witness): the caller changed a cell and the metadata of the result
C4_Witness ==
    /\ nbc # 0
    /\ touched
    /\ MetadataOf(heap, nbc) = "changed"
    /\ \E i \in 1..Len(CellsOf(heap, nbc)) : CellsOf(heap, nbc)[i].source = 0
    /\ Len(orig.cells) = 3

-----------------------------------------------------------------------------
(* The directive parser (ParserSpec).                                      *)

EXTRA == <<"e", "x", "t", "r", "a">>

Blank(s) == AllIn(s, 1, Len(s) + 1, Space)

\* the numeral is an optionally signed integer, or absent
IsInteger(x) == x.form \in {"none", "int", "zero"}
IntegersIn(c) == IsInteger(c.s) /\ IsInteger(c.e)

\* the markup follows  <path> [cells[<start>:<end>]] [language[<lang>]]  with
\* its tokens separated by whitespace: a path, then at most a cells clause,
\* then at most a language clause
Canonical(d) ==
    /\ d.path # <<>>
    /\ Blank(d.trail)
    /\ \/ d.c1.kind = "none" /\ d.c2.kind = "none"
       \/ /\ d.c1.kind \in {"cells", "language"}
          /\ d.c2.kind = "none"
          /\ d.sep1 # <<>>
       \/ /\ d.c1.kind = "none"
          /\ d.c2.kind = "language"
          /\ d.sep1 \o d.sep2 # <<>>
       \/ /\ d.c1.kind = "cells"
          /\ d.c2.kind = "language"
          /\ d.sep1 # <<>>
          /\ d.sep2 # <<>>
    /\ IntegersIn(d.c1)

\* the clause of the kind, if the markup has one
HasClause(d, kind) == d.c1.kind = kind \/ d.c2.kind = kind
ClauseOf(d, kind) == IF d.c1.kind = kind THEN d.c1 ELSE d.c2

\* the start, end and language a canonical markup states
WrittenStart(d) ==
    IF HasClause(d, "cells") /\ ClauseOf(d, "cells").s.form # "none"
    THEN SomeInt(ClauseOf(d, "cells").s.n) ELSE SomeInt(0)
WrittenEnd(d) ==
    IF HasClause(d, "cells") /\ ClauseOf(d, "cells").e.form # "none"
    THEN SomeInt(ClauseOf(d, "cells").e.n) ELSE NoneInt
WrittenLanguage(d) ==
    IF HasClause(d, "language") THEN SomeStr(ClauseOf(d, "language").l) ELSE NoneStr

\* C1: for a markup that follows the grammar, thebe() takes the path, the
\* start, the end and the language as they are written, with start = 0,
\* end = None and language = None where the clause, or the digits on one side
\* of the colon, are absent.
C1_ParsedAsWritten ==
    (last.done /\ Canonical(last.d)) =>
      /\ last.r.error # SyntaxError
      /\ last.r.src = SomeStr(last.d.path)
      /\ last.r.start = WrittenStart(last.d)
      /\ last.r.end = WrittenEnd(last.d)
      /\ last.r.language = WrittenLanguage(last.d)

\* C1 (witness): "nb cells[:-1]" gave start = 0 and end = -1
C1_Witness ==
    /\ last.done
    /\ Canonical(last.d)
    /\ last.d.c1 = CellsClause(Numeral("none", 0), Numeral("int", 0 - 1))
    /\ last.d.c2 = NoClause
    /\ last.r.start = SomeInt(0)
    /\ last.r.end = SomeInt(0 - 1)
    /\ last.r.language = NoneStr

\* no Directive came out of the evaluation: it ended with the ValueError that
\* carries SYNTAX, before anything else was done
Rejected(r) ==
    /\ r.error = SyntaxError
    /\ r.error.syntax = SYNTAX
    /\ r.steps = <<"search">>
    /\ r.src.none
    /\ r.token.none

\* a markup that is a cells clause and nothing else, such as "cells[2:5]"
OnlyCellsClause(d) ==
    /\ d.path = <<>>
    /\ d.c1.kind = "cells"
    /\ IntegersIn(d.c1)
    /\ d.c2.kind = "none"
    /\ Blank(d.trail)

\* in s some whitespace follows a character that is none
SecondTokenStarts(s) ==
    \E i \in 1..Len(s) : \E j \in (i + 1)..Len(s) : s[i] \notin Space /\ s[j] \in Space

\* the markup ends in text that is glued to what stands before it, after the
\* first token has ended, such as "nb cells[2:]extra"
TrailingText(d) ==
    /\ d.trail = EXTRA
    /\ SecondTokenStarts(d.path \o d.sep1 \o ClauseText(d.c1) \o d.sep2 \o ClauseText(d.c2))

\* after a path and whitespace, two clauses that are not a cells clause followed
\* by a language clause
WrongClauses(d) ==
    /\ d.path # <<>>
    /\ d.sep1 # <<>>
    /\ d.c2.kind # "none"
    /\ d.c1.kind = "language" \/ (d.c1.kind = "cells" /\ d.c2.kind = "cells")

\* C2 (as stated): a markup that is only a cells clause, or that ends in text
\* glued to a clause, fails with the ValueError that carries SYNTAX.
C2_AsStated ==
    (last.done /\ (OnlyCellsClause(last.d) \/ TrailingText(last.d))) => Rejected(last.r)

\* C2 (amended): a blank markup, a markup with text after its first token that
\* is not a cells clause followed by a language clause (text glued to a clause,
\* a repeated clause, a language clause before another clause) fails with the
\* ValueError that carries SYNTAX and gives no Directive; a markup that is only
\* a cells clause is taken for a path and does not fail so.
C2_RejectedMarkups ==
    last.done =>
      /\ (Blank(last.markup) \/ TrailingText(last.d) \/ WrongClauses(last.d))
           => Rejected(last.r)
      /\ OnlyCellsClause(last.d) =>
           /\ ~Rejected(last.r)
           /\ last.r.src = SomeStr(ClauseText(last.d.c1))
           /\ last.r.start = SomeInt(0)
           /\ last.r.end = NoneInt

\* C2 (witness): "nb cells[2:]extra" was rejected
C2_Witness ==
    /\ last.done
    /\ last.d.path = NB
    /\ last.d.c1 = CellsClause(Numeral("int", 2), Numeral("none", 0))
    /\ last.d.c2 = NoClause
    /\ last.d.trail = EXTRA
    /\ Rejected(last.r)

\* a path, a language clause and then a cells clause, separated by whitespace
LanguageFirst(d) ==
    /\ d.path # <<>>
    /\ d.sep1 # <<>>
    /\ d.c1.kind = "language"
    /\ d.c2.kind = "cells"
    /\ IntegersIn(d.c2)
    /\ d.sep2 # <<>>
    /\ Blank(d.trail)

\* the markup with its two clauses exchanged
Swapped(d) == [d EXCEPT !.c1 = d.c2, !.c2 = d.c1]

\* C7 (as stated): a markup with the language clause before the cells clause
\* is accepted and gives the path, start, end and language of the markup with
\* the cells clause first.
C7_AsStated ==
    (last.done /\ LanguageFirst(last.d)) =>
      /\ ~Rejected(last.r)
      /\ last.r.src = thebe(fs, <<>>, MarkupText(Swapped(last.d))).src
      /\ last.r.start = thebe(fs, <<>>, MarkupText(Swapped(last.d))).start
      /\ last.r.end = thebe(fs, <<>>, MarkupText(Swapped(last.d))).end
      /\ last.r.language = thebe(fs, <<>>, MarkupText(Swapped(last.d))).language

\* C7 (amended): the two clauses have one order: a markup with the language
\* clause before the cells clause fails with the ValueError that carries
\* SYNTAX, while the same markup with the cells clause first is accepted and
\* gives both clauses.
C7_OrderIsFixed ==
    (last.done /\ LanguageFirst(last.d)) =>
      /\ Rejected(last.r)
      /\ ~Rejected(thebe(fs, <<>>, MarkupText(Swapped(last.d))))
      /\ thebe(fs, <<>>, MarkupText(Swapped(last.d))).language = SomeStr(last.d.c1.l)
      /\ thebe(fs, <<>>, MarkupText(Swapped(last.d))).start = WrittenStart(last.d)
      /\ thebe(fs, <<>>, MarkupText(Swapped(last.d))).end = WrittenEnd(last.d)

\* C7 (witness): "nb language[py]<tab>cells[2:5]" was rejected
C7_Witness ==
    /\ last.done
    /\ LanguageFirst(last.d)
    /\ last.d.c1 = LanguageClause(PY)
    /\ last.d.c2 = CellsClause(Numeral("int", 2), Numeral("int", 5))
    /\ Rejected(last.r)

\* C8 (as stated): the parser has two outcomes: a Directive whose start is an
\* integer and whose end is an integer or None, or the ValueError that
\* carries SYNTAX.
C8_TwoOutcomes ==
    last.done => (Rejected(last.r) \/ (~last.r.src.none /\ ~last.r.start.none))

-----------------------------------------------------------------------------
(* The evaluation of the tags of a page (Spec).                            *)

\* the step is one of those the evaluation went through
Did(r, step) == \E i \in 1..Len(r.steps) : r.steps[i] = step

\* the evaluation succeeded: one fragment stored as the last thing done before
\* the return, and its placeholder returned
Succeeded(before, r, after) ==
    /\ r.error = NoError
    /\ Len(after) = Len(before) + 1
    /\ SubSeq(after, 1, Len(before)) = before
    /\ after[Len(after)] = [html |-> r.body, safe |-> TRUE]
    /\ r.token = SomeInt(Len(before))
    /\ Len(r.steps) >= 2
    /\ r.steps[Len(r.steps)] = "return"
    /\ r.steps[Len(r.steps) - 1] = "store"
    /\ Cardinality({ i \in 1..Len(r.steps) : r.steps[i] = "store" }) = 1

\* the evaluation failed: nothing stored and nothing returned
Failed(before, r, after) ==
    /\ r.error # NoError
    /\ r.error.type # ""
    /\ after = before
    /\ r.token.none
    /\ ~Did(r, "store")
    /\ ~Did(r, "return")

\* C5: every evaluation of thebe() either succeeds, storing exactly one
\* fragment in the stash as its last step and returning one token, or fails,
\* storing nothing and returning nothing; the stash is only appended to.
C5_AllOrNothing ==
    [][ \/ Succeeded(stash, last'.r, stash')
        \/ Failed(stash, last'.r, stash') ]_vars

\* C5 (witness): after a tag that succeeded, a tag failed past the parser and
\* the stash kept its one fragment
C5_Witness ==
    /\ evals = 2
    /\ Len(stash) = 1
    /\ last.r.error # NoError
    /\ Did(last.r, "open")

\* contentRoot/NOTEBOOK_DIR/sourcePath, for a relative sourcePath
ContentPath(src) == CONTENT \o <<"/">> \o NOTEBOOK_DIR \o <<"/">> \o src

\* C6: when the path content/NOTEBOOK_DIR/src of a parsed directive does not
\* exist, thebe() fails with the ValueError "File ... could not be found" that
\* carries that path, and with nothing else; the file is not opened and
\* nothing is stored.
C6_NotFound ==
    (last.done /\ ~last.r.src.none /\ ContentPath(last.r.src.val) \notin DOMAIN fs) =>
      /\ last.r.error = NotFoundError(ContentPath(last.r.src.val))
      /\ last.r.error.type = "ValueError"
      /\ ~Did(last.r, "open")
      /\ ~Did(last.r, "store")
      /\ last.r.token.none
      /\ last.r.stash = stash

\* C6 (witness): "no cells[1:] language[py]" named a file that does not exist
C6_Witness ==
    /\ last.done
    /\ last.d.path = NO
    /\ last.d.c1.kind = "cells"
    /\ last.r.src = SomeStr(NO)
    /\ last.r.error.text = "File {0} could not be found"

\* the markup has the clause cells[:]
FullRange(d) == d.c1 = CellsClause(Numeral("none", 0), Numeral("none", 0))
\* the markup without its cells clause
WithoutCells(d) == [d EXCEPT !.c1 = NoClause]

\* C9: a markup with the clause cells[:] selects and renders the cells that
\* the same markup without a cells clause does: all the cells of the notebook.
C9_FullRange ==
    (last.done /\ FullRange(last.d)) =>
      /\ last.r.error = thebe(fs, <<>>, MarkupText(WithoutCells(last.d))).error
      /\ last.r.cells = thebe(fs, <<>>, MarkupText(WithoutCells(last.d))).cells
      /\ last.r.body = thebe(fs, <<>>, MarkupText(WithoutCells(last.d))).body
      /\ last.r.error = NoError => last.r.cells = fs[last.r.nb_path].nb.cells

\* C9 (witness): "nb cells[:]" rendered a notebook of two cells or more
C9_Witness ==
    /\ last.done
    /\ FullRange(last.d)
    /\ last.r.error = NoError
    /\ Len(last.r.cells) >= 2
    /\ Len(last.r.body) = Len(last.r.cells)

\* the tag names the notebook NB and selects all its cells, one of which is a
\* code cell whose source the lexer cannot handle
HighlightFails(d) ==
    /\ d.path = NB
    /\ d.c1 = NoClause \/ FullRange(d)
    /\ d.trail = <<>>
    /\ \E i \in 1..Len(fs[ContentPath(NB)].nb.cells) :
         /\ fs[ContentPath(NB)].nb.cells[i].cell_type = "code"
         /\ LexerRaises(fs[ContentPath(NB)].nb.cells[i].source)

\* C10 (as stated): when the highlighter fails on a cell, the cells are rendered
\* all the same, the evaluation succeeds and one fragment is stored.
C10_AsStated ==
    (last.done /\ HighlightFails(last.d)) =>
      /\ last.r.error = NoError
      /\ ~last.r.token.none
      /\ Len(last.r.body) = Len(fs[ContentPath(NB)].nb.cells)

\* the first cell is the only one whose source the lexer cannot handle, and
\* the tag leaves it out with cells[1:]
FailingCellLeftOut(d) ==
    /\ d.path = NB
    /\ d.c1 = CellsClause(Numeral("int", 1), Numeral("none", 0))
    /\ d.trail = <<>>
    /\ Len(fs[ContentPath(NB)].nb.cells) >= 1
    /\ LexerRaises(fs[ContentPath(NB)].nb.cells[1].source)

\* C10 (amended): a failure of the highlighter on a selected code cell is not
\* recovered: it ends the evaluation with that failure, no cell is rendered,
\* nothing is stored and no token is returned; only a cell that the range
\* leaves out cannot fail the evaluation.
C10_FailurePropagates ==
    last.done =>
      /\ HighlightFails(last.d) =>
           /\ last.r.error = RenderError(ContentPath(NB))
           /\ last.r.body = <<>>
           /\ last.r.token.none
           /\ ~Did(last.r, "store")
           /\ last.r.stash = stash
      /\ FailingCellLeftOut(last.d) =>
           /\ last.r.error = NoError
           /\ Len(last.r.body) = Len(fs[ContentPath(NB)].nb.cells) - 1

\* C10 (witness): the highlighter failed on the third cell of three and the
\* evaluation ended with the failure
C10_Witness ==
    /\ last.done
    /\ HighlightFails(last.d)
    /\ Len(fs[ContentPath(NB)].nb.cells) = 3
    /\ LexerRaises(fs[ContentPath(NB)].nb.cells[3].source)
    /\ last.r.error.text = "highlight"

====
